---- MODULE Spec2Model ----
(***************************************************************************)
(* A model of the deduplication phases of post-photorec.py:                *)
(*   - the exact (byte-for-byte) deduplication loop,                       *)
(*   - the plain-text deduplication loop,                                  *)
(*   - the visual image deduplication loop.                                *)
(* Each phase has its own specification (SpecExact, SpecText, SpecVisual); *)
(* the variables of the other phases stay at their initial values.         *)
(***************************************************************************)
EXTENDS Integers, Sequences, FiniteSets, TLC

(***************************************************************************)
(* Bounds of the model.                                                    *)
(***************************************************************************)
\* number of files handed to the exact deduplicator
NumFiles == 3

\* A path is modelled by a natural number; the order of the numbers is the
\* lexicographic order of the path strings.
Paths == 1 .. NumFiles

\* File contents: sequences of bytes.  Two sizes, two contents of one size;
\* the two five-byte contents have the same first four bytes and different
\* last four bytes.
Contents == { <<0>>, <<0, 0, 0, 0, 0>>, <<0, 0, 0, 0, 1>> }

\* Extensions os.path.splitext can yield, in string order.
Exts == { ".bin", ".txt" }

\* Python's None
None == "None"

\* the extension written into a record marked as removed (r'/')
Slash == "/"

\* rank of an extension key in Python's string order ("/" < ".": 0x2F > 0x2E)
extRank(e) == CASE e = None -> 0
                [] e = ".bin" -> 1
                [] e = ".txt" -> 2
                [] OTHER -> 3

(***************************************************************************)
(* State of the exact deduplication phase.                                 *)
(***************************************************************************)
VARIABLES
    bytes,        \* path -> content of the file (what is or was on disk)
    extOf,        \* path -> extension of the path
    option_dedupAcrossExtensions,  \* -d
    disk,         \* the paths that exist on disk
    files,        \* the list of (size, ext, path) records
    signatures,   \* per record: first four bytes, or None
    tails,        \* per record: last four bytes, or None
    i, j,         \* the loop indices (1-based)
    pc,           \* "pre", "outer", "inner", "done", "aborted"
    done, actuallyDeduped,   \* the progress counters
    run,          \* 1: first invocation, 2: second invocation on the survivors
    deleted,      \* history: paths this run's removeFile took off the disk
    faulted,      \* history: an external change or a refused deletion happened
    last          \* history: what the last inner iteration did

exactVars == << bytes, extOf, option_dedupAcrossExtensions, disk, files,
                signatures, tails, i, j, pc, done, actuallyDeduped, run,
                deleted, faulted, last >>

(***************************************************************************)
(* State of the plain-text deduplication phase.                            *)
(***************************************************************************)
VARIABLES
    rawText,      \* path -> what the file holds
    walkOrder,    \* the order in which os.walk yielded the paths
    contents,     \* the pool's results, in the order of walkOrder
    textFiles,    \* the list: paths, then (length, path) records, then sorted
    ti, tj,       \* the loop indices i, j (1-based)
    tpc,          \* "pool", "outer", "inner", "done"
    textDisk,     \* the .txt paths that exist on disk
    textDeleted,  \* history: paths removeFile took off the disk
    textFaulted,  \* history: a deletion was refused
    tdone, tDeduped   \* done, actuallyDeduped

textVars == << rawText, walkOrder, contents, textFiles, ti, tj, tpc, textDisk,
               textDeleted, textFaulted, tdone, tDeduped >>

(***************************************************************************)
(* State of the visual image deduplication phase.                          *)
(***************************************************************************)
VARIABLES
    dimsOf,       \* path -> (width, height), or Undecodable
    picOf,        \* path -> the picture the image shows
    fsizeOf,      \* path -> size of the file in bytes
    imageFiles,   \* the list of (orientation key, size, average color, path)
    vi, vj,       \* the loop indices i, j (1-based)
    vpc,          \* "pool", "outer", "inner", "done"
    image,        \* the opened image of i: its path, or NonePath
    currentGroup, \* the list of (width + height, path) of the group of i
    imageDisk,    \* the image paths that exist on disk
    imageDeleted, \* history: paths removeFile took off the disk
    imageFaulted, \* history: a deletion was refused or a file vanished
    openFailed,   \* history: paths Image.open failed on during the scan
    finished,     \* history: the members of the group finished last
    vdone, vDeduped   \* done, actuallyDeduped

visualVars == << dimsOf, picOf, fsizeOf, imageFiles, vi, vj, vpc, image,
                 currentGroup, imageDisk, imageDeleted, imageFaulted,
                 openFailed, finished, vdone, vDeduped >>

(***************************************************************************)
(* State of a feature precomputation pool (multiprocessing.Pool).          *)
(***************************************************************************)
VARIABLES
    counter,      \* i.value, the shared progress counter
    lockHolder,   \* the worker inside `with i.get_lock()`, or NoWorker
    wpc,          \* worker -> "idle", "acquire", "read", "write", "release", "compute"
    wtask,        \* worker -> index of the path it works on, or 0
    wtmp,         \* worker -> the counter value it read for `+= 1`
    pending,      \* the indices of the input list not yet handed to a worker
    results,      \* index -> the feature the pool has for it
    returned      \* the indices whose feature a worker has delivered

poolVars == << counter, lockHolder, wpc, wtask, wtmp, pending, results, returned >>

(***************************************************************************)
(* State of a single call of one of the functions of the visual phase, and *)
(* the outcome of an earlier run kept for comparison with a later one.     *)
(***************************************************************************)
VARIABLES
    fn,           \* the function called: "none" before the call
    args,         \* its two arguments
    result,       \* what it returned, NoResult before the call
    earlierRun    \* the files an earlier run on the same files deleted

callVars == << fn, args, result >>

vars == << exactVars, textVars, visualVars, poolVars, callVars, earlierRun >>

\* fileSize: os.stat(filePath).st_size, 0 when stat fails
fileSize(p) == IF p \in disk THEN Len(bytes[p]) ELSE 0

\* tuple order of Python on (size, ext, path)
recordLessPathDescending(a, b) ==
    \/ a[1] < b[1]
    \/ a[1] = b[1] /\ extRank(a[2]) < extRank(b[2])
    \/ a[1] = b[1] /\ a[2] = b[2] /\ a[3] > b[3]

recordLess(a, b) ==
    \/ a[1] < b[1]
    \/ a[1] = b[1] /\ extRank(a[2]) < extRank(b[2])
    \/ a[1] = b[1] /\ a[2] = b[2] /\ a[3] < b[3]

RECURSIVE SetToSeq(_)
SetToSeq(S) == IF S = {} THEN << >>
               ELSE LET x == CHOOSE y \in S : TRUE
                    IN  << x >> \o SetToSeq(S \ {x})

\* lines 1015-1018: the second element of a record is None with -d, the
\* extension of the path without it
alwaysExtension(p, acrossExt) == extOf[p]

recordKey(p, acrossExt) == IF acrossExt THEN None ELSE extOf[p]

\* files = sorted([(fileSize(file), ext-or-None, file) for file in files])
filesList(present, acrossExt) ==
    SortSeq(SetToSeq({ << fileSize(p), recordKey(p, acrossExt), p >>
                        : p \in present }),
            recordLess)

\* the extension key of a path: lines 1015-1018
extensionKey(p) == IF option_dedupAcrossExtensions THEN None ELSE extOf[p]

\* line 1069: the inner loop starts right after i
firstCandidateSkipping(k) == k + 2

firstCandidate(k) == k + 1

\* line 1073: the records have the same extension key
anyExtensionKey(a, b) == TRUE

sameExtensionKey(a, b) == a[2] = b[2]

\* a record marked as removed: (-1, r'/', path)
removedRecord(p) == << -1, Slash, p >>

\* signature precomputation: open(files[i], r'rb') is given the whole record
\* (a tuple), not its path, so open() raises TypeError, which the bare except
\* turns into None for every record.
signatureOf(rec) == None

tailOf(rec) == None

\* filecmp.cmp(a, b, shallow=False) on two existing, readable files
filecmpShallow(a, b) == Len(bytes[a]) = Len(bytes[b])

filecmp(a, b) == bytes[a] = bytes[b]

(***************************************************************************)
(* The exact deduplication phase (option_removeDuplicates).                *)
(***************************************************************************)
InitExact ==
    /\ bytes \in [Paths -> Contents]
    /\ extOf \in [Paths -> Exts]
    /\ option_dedupAcrossExtensions \in BOOLEAN
    /\ disk = Paths
    /\ files = filesList(Paths, option_dedupAcrossExtensions)
    /\ signatures = [k \in Paths |-> 0]
    /\ tails = [k \in Paths |-> 0]
    /\ i = 1
    /\ j = 1
    /\ pc = "pre"
    /\ done = 0
    /\ actuallyDeduped = 0
    /\ run = 1
    /\ deleted = {}
    /\ faulted = FALSE
    /\ last = << "none", 0, 0 >>

\* lines 1056-1066: the signatures of all records, then the scan starts
ExactPreanalyse ==
    /\ pc = "pre"
    /\ signatures' = [k \in 1 .. Len(files) |-> signatureOf(files[k])]
    /\ tails' = [k \in 1 .. Len(files) |-> tailOf(files[k])]
    /\ i' = 1
    /\ pc' = "outer"
    /\ UNCHANGED << bytes, extOf, option_dedupAcrossExtensions, disk, files, j,
                    done, actuallyDeduped, run, deleted, faulted, last >>
    /\ UNCHANGED << textVars, visualVars, poolVars, callVars, earlierRun >>

\* line 1068: the record of i is marked as removed
seedNeverMarked == FALSE

seedMarked == files[i][1] = -1

\* lines 1067-1068 and 1088-1091: the head of the outer loop
ExactOuter ==
    /\ pc = "outer"
    /\ IF i > Len(files)
         THEN /\ pc' = "done"
              /\ UNCHANGED << i, j >>
         ELSE IF seedMarked
                THEN /\ i' = i + 1
                     /\ UNCHANGED << pc, j >>
                ELSE /\ j' = firstCandidate(i)
                     /\ pc' = "inner"
                     /\ UNCHANGED i
    /\ UNCHANGED << bytes, extOf, option_dedupAcrossExtensions, disk, files,
                    signatures, tails, done, actuallyDeduped, run, deleted,
                    faulted, last >>
    /\ UNCHANGED << textVars, visualVars, poolVars, callVars, earlierRun >>

\* leaving the inner loop (its range is exhausted, or a break): lines 1086-1087
endOfInner ==
    /\ done' = done + 1
    /\ i' = i + 1
    /\ pc' = "outer"
    /\ UNCHANGED j

\* `continue` of the inner loop
nextJ ==
    /\ j' = j + 1
    /\ UNCHANGED << i, pc >>

\* line 1085: after a removal the inner loop goes on with the next j
breakAfterRemoval ==
    /\ j' = j + 1
    /\ i' = i + 1
    /\ pc' = "outer"

afterRemoval == nextJ

\* line 1074: os.path.exists(files[i][2])
seedAssumedPresent == TRUE

seedPresent == files[i][3] \in disk

\* line 1078: a candidate whose file is missing counts as done, not as a
\* removed duplicate
countedAsRemoved ==
    /\ actuallyDeduped' = actuallyDeduped + 1
    /\ UNCHANGED done

alreadyHandled ==
    /\ done' = done + 1
    /\ UNCHANGED actuallyDeduped

\* lines 1069-1085: one iteration of the inner loop on the pair (i, j).
\* cmpFault: filecmp.cmp raises OSError (a file vanished after the existence
\* check, or cannot be read); nothing catches it, the script ends.
\* removal: what os.remove does in removeFile: the file is removed, the removal
\* is refused (PermissionError), or the file is already gone (FileNotFoundError).
ExactInner ==
    /\ pc = "inner"
    /\ IF j > Len(files)
         THEN /\ endOfInner
              /\ last' = << "end", i, j >>
              /\ UNCHANGED << files, disk, actuallyDeduped, deleted, faulted >>
         ELSE
           IF files[j][1] = -1
             THEN /\ nextJ
                  /\ last' = << "skip", i, j >>
                  /\ UNCHANGED << files, disk, done, actuallyDeduped, deleted, faulted >>
           ELSE IF files[i][1] # files[j][1]
             THEN /\ endOfInner
                  /\ last' = << "break", i, j >>
                  /\ UNCHANGED << files, disk, actuallyDeduped, deleted, faulted >>
           ELSE IF signatures[i] # signatures[j] \/ tails[i] # tails[j]
             THEN /\ nextJ
                  /\ last' = << "prefilter", i, j >>
                  /\ UNCHANGED << files, disk, done, actuallyDeduped, deleted, faulted >>
           ELSE IF ~ sameExtensionKey(files[i], files[j])
             THEN /\ nextJ
                  /\ last' = << "otherext", i, j >>
                  /\ UNCHANGED << files, disk, done, actuallyDeduped, deleted, faulted >>
           ELSE IF ~ seedPresent
             THEN /\ files' = [files EXCEPT ![j] = removedRecord(files[i][3])]
                  /\ endOfInner
                  /\ last' = << "igone", i, j >>
                  /\ UNCHANGED << disk, actuallyDeduped, deleted, faulted >>
           ELSE IF files[j][3] \notin disk
             THEN /\ alreadyHandled
                  /\ files' = [files EXCEPT ![j] = removedRecord(files[j][3])]
                  /\ nextJ
                  /\ last' = << "jgone", i, j >>
                  /\ UNCHANGED << disk, deleted, faulted >>
           ELSE
             \E cmpFault \in { "none", "vanished", "unreadable" } :
               IF cmpFault # "none"
                 THEN /\ pc' = "aborted"
                      /\ faulted' = TRUE
                      /\ disk' = IF cmpFault = "vanished"
                                   THEN disk \ { files[j][3] } ELSE disk
                      /\ last' = << "raised", i, j >>
                      /\ UNCHANGED << files, i, j, done, actuallyDeduped, deleted >>
               ELSE IF filecmp(files[i][3], files[j][3])
                 THEN \E removal \in { "removed", "refused", "gone" } :
                      /\ actuallyDeduped' = actuallyDeduped + 1
                      /\ disk' = IF removal = "refused"
                                   THEN disk ELSE disk \ { files[j][3] }
                      /\ deleted' = IF removal = "removed"
                                      THEN deleted \cup { files[j][3] } ELSE deleted
                      /\ faulted' = (faulted \/ removal # "removed")
                      /\ files' = [files EXCEPT ![j] = removedRecord(files[j][3])]
                      /\ afterRemoval
                      /\ last' = << removal, i, j >>
                      /\ UNCHANGED done
               ELSE /\ nextJ
                    /\ last' = << "differ", i, j >>
                    /\ UNCHANGED << files, disk, done, actuallyDeduped, deleted, faulted >>
    /\ UNCHANGED << bytes, extOf, option_dedupAcrossExtensions, signatures,
                    tails, run >>
    /\ UNCHANGED << textVars, visualVars, poolVars, callVars, earlierRun >>

\* a file is deleted by something else than the script while the scan runs
ExactVanish ==
    /\ pc \in { "outer", "inner" }
    /\ \E p \in disk :
         /\ disk' = disk \ { p }
         /\ faulted' = TRUE
    /\ UNCHANGED << bytes, extOf, option_dedupAcrossExtensions, files,
                    signatures, tails, i, j, pc, done, actuallyDeduped, run,
                    deleted, last >>
    /\ UNCHANGED << textVars, visualVars, poolVars, callVars, earlierRun >>

\* the script is run a second time on what the first run left on disk:
\* lines 998-1021 build the list again, lines 1053-1054 reset the counters
ExactRerun ==
    /\ pc = "done"
    /\ run = 1
    /\ disk # {}
    /\ run' = 2
    /\ files' = filesList(disk, option_dedupAcrossExtensions)
    /\ signatures' = [k \in 1 .. Cardinality(disk) |-> 0]
    /\ tails' = [k \in 1 .. Cardinality(disk) |-> 0]
    /\ i' = 1
    /\ j' = 1
    /\ pc' = "pre"
    /\ done' = 0
    /\ actuallyDeduped' = 0
    /\ deleted' = {}
    /\ last' = << "none", 0, 0 >>
    /\ UNCHANGED << bytes, extOf, option_dedupAcrossExtensions, disk, faulted >>
    /\ UNCHANGED << textVars, visualVars, poolVars, callVars, earlierRun >>

NextExact ==
    \/ ExactPreanalyse
    \/ ExactOuter
    \/ ExactInner
    \/ ExactVanish
    \/ ExactRerun

(***************************************************************************)
(* The plain-text deduplication phase (option_DeepDedupTxts).              *)
(***************************************************************************)
\* number of .txt files handed to the text deduplicator
NumTexts == 3

TextPaths == 1 .. NumTexts

\* what a .txt file holds: characters ("nl" is a line end, " " a blank), or
\* << "unreadable" >> when open() or read() fails
RawTexts == { << "a" >>, << "A" >>, << "a", "nl" >>, << "b" >>,
              << "a", " ", "b" >>, << "nl" >>, << "unreadable" >> }


isSpace(c) == c \in { " ", "nl" }

\* str.strip()
RECURSIVE lstrip(_)
lstrip(s) == IF s # << >> /\ isSpace(Head(s)) THEN lstrip(Tail(s)) ELSE s

RECURSIVE rstrip(_)
rstrip(s) == IF s # << >> /\ isSpace(s[Len(s)])
               THEN rstrip(SubSeq(s, 1, Len(s) - 1)) ELSE s

strip(s) == rstrip(lstrip(s))

\* str.translate(_table): control characters (line ends among them) to a blank
translate(s) == [k \in 1 .. Len(s) |-> IF s[k] = "nl" THEN " " ELSE s[k]]

\* str.casefold()
casefold(s) == [k \in 1 .. Len(s) |-> IF s[k] = "A" THEN "a" ELSE s[k]]

\* whitespace.sub(r'', s): every run of whitespace is removed
withoutWhitespace(s) == SelectSeq(s, LAMBDA c : ~ isSpace(c))

\* preprocessedTextWithProgress without its `except: return r''`
preprocessedTextNoSentinel(raw) == withoutWhitespace(casefold(translate(strip(raw))))

\* preprocessedTextWithProgress (NFC leaves these characters alone)
preprocessedText(raw) ==
    IF raw = << "unreadable" >> THEN << >>
    ELSE withoutWhitespace(casefold(translate(strip(raw))))

\* Python's order on (length, path) tuples, reversed: sorted(files, reverse=True)
textRecordAfter(a, b) ==
    \/ a[1] > b[1]
    \/ a[1] = b[1] /\ a[2] > b[2]

\* the permutations of the paths: every order os.walk can yield them in
walkOrders ==
    { s \in [TextPaths -> TextPaths] : \A p \in TextPaths : \E k \in TextPaths : s[k] = p }

\* None in the place of a path
NonePath == 0

\* a record of a removed text: (0, None)
removedText == << 0, NonePath >>

\* line 1389 / 1393: the record is skipped
textSkipped(k) ==
    \/ textFiles[k][2] = NonePath
    \/ textFiles[k][1] = 0
    \/ contents[k] = << >>

InitText ==
    /\ rawText \in [TextPaths -> RawTexts]
    /\ walkOrder \in walkOrders
    /\ contents = << >>
    /\ textFiles = walkOrder
    /\ ti = 1
    /\ tj = 1
    /\ tpc = "pool"
    /\ textDisk = TextPaths
    /\ textDeleted = {}
    /\ textFaulted = FALSE
    /\ tdone = 0
    /\ tDeduped = 0

\* lines 1384-1387: the pool maps the paths to their normalized contents, each
\* path becomes a (length, path) record, and the records (not the contents)
\* are sorted in reverse
TextPrecompute ==
    /\ tpc = "pool"
    /\ contents' = [k \in TextPaths |-> preprocessedText(rawText[textFiles[k]])]
    /\ textFiles' = SortSeq([k \in TextPaths |-> << Len(contents'[k]), textFiles[k] >>],
                            textRecordAfter)
    /\ ti' = 1
    /\ tpc' = "outer"
    /\ UNCHANGED << rawText, walkOrder, tj, textDisk, textDeleted, textFaulted,
                    tdone, tDeduped >>
    /\ UNCHANGED << exactVars, visualVars, poolVars, callVars, earlierRun >>

\* lines 1388-1391: the head of the outer loop
TextOuter ==
    /\ tpc = "outer"
    /\ IF ti > Len(textFiles)
         THEN /\ tpc' = "done"
              /\ UNCHANGED << ti, tj, tdone >>
         ELSE IF textSkipped(ti)
                THEN /\ ti' = ti + 1
                     /\ UNCHANGED << tpc, tj, tdone >>
                ELSE /\ tdone' = tdone + 1
                     /\ tj' = ti + 1
                     /\ tpc' = "inner"
                     /\ UNCHANGED ti
    /\ UNCHANGED << rawText, walkOrder, contents, textFiles, textDisk,
                    textDeleted, textFaulted, tDeduped >>
    /\ UNCHANGED << exactVars, visualVars, poolVars, callVars, earlierRun >>

\* lines 1392-1405: one iteration of the inner loop on the pair (i, j)
TextInner ==
    /\ tpc = "inner"
    /\ IF tj > Len(textFiles)
         THEN /\ ti' = ti + 1
              /\ tpc' = "outer"
              /\ UNCHANGED << tj, textFiles, textDisk, textDeleted, textFaulted,
                              tdone, tDeduped >>
         ELSE
           IF textSkipped(tj)
             THEN /\ tj' = tj + 1
                  /\ UNCHANGED << ti, tpc, textFiles, textDisk, textDeleted,
                                  textFaulted, tdone, tDeduped >>
           ELSE IF textFiles[ti][1] # textFiles[tj][1]
             THEN /\ ti' = ti + 1
                  /\ tpc' = "outer"
                  /\ UNCHANGED << tj, textFiles, textDisk, textDeleted,
                                  textFaulted, tdone, tDeduped >>
           ELSE IF \/ contents[ti][1] # contents[tj][1]
                   \/ contents[ti][Len(contents[ti])] # contents[tj][Len(contents[tj])]
                   \/ contents[ti] # contents[tj]
             THEN /\ tj' = tj + 1
                  /\ UNCHANGED << ti, tpc, textFiles, textDisk, textDeleted,
                                  textFaulted, tdone, tDeduped >>
           ELSE \E removal \in { "removed", "refused" } :
                  /\ textDisk' = IF removal = "removed"
                                   THEN textDisk \ { textFiles[tj][2] } ELSE textDisk
                  /\ textDeleted' = IF removal = "removed"
                                      THEN textDeleted \cup { textFiles[tj][2] }
                                      ELSE textDeleted
                  /\ textFaulted' = (textFaulted \/ removal = "refused")
                  /\ textFiles' = [textFiles EXCEPT ![tj] = removedText]
                  /\ tdone' = tdone + 1
                  /\ tDeduped' = tDeduped + 1
                  /\ tj' = tj + 1
                  /\ UNCHANGED << ti, tpc >>
    /\ UNCHANGED << rawText, walkOrder, contents >>
    /\ UNCHANGED << exactVars, visualVars, poolVars, callVars, earlierRun >>

NextText ==
    \/ TextPrecompute
    \/ TextOuter
    \/ TextInner

(***************************************************************************)
(* The visual image deduplication phase (option_visuallyDedupImages).      *)
(***************************************************************************)
\* number of image files handed to the visual deduplicator
NumImages == 3

ImagePaths == 1 .. NumImages

\* (width, height) of the images; << -999, -999 >> stands for a file that
\* Image.open(...).convert cannot decode
Undecodable == << -999, -999 >>

\* the image files the model draws from: (size, picture, file size)
ImageKinds == { << << 101, 98 >>, 1, 10 >>,
                << << 202, 197 >>, 1, 10 >>,
                << << 203, 196 >>, 1, 20 >>,
                << << 205, 200 >>, 1, 10 >>,
                << << 404, 394 >>, 1, 20 >>,
                << << 300, 400 >>, 1, 10 >>,
                << << 202, 197 >>, 2, 10 >>,
                << Undecodable, 1, 10 >> }

\* None in the place of an average color
NoColor == << >>


abs(x) == IF x < 0 THEN -x ELSE x

max2(a, b) == IF a >= b THEN a ELSE b

min2(a, b) == IF a <= b THEN a ELSE b

\* round(n / d, 2), in hundredths (Python rounds a tie to the even neighbour)
round2(n, d) ==
    LET q == (100 * n) \div d
        r == (100 * n) % d
    IN  IF 2 * r > d THEN q + 1
        ELSE IF 2 * r < d THEN q
        ELSE IF q % 2 = 0 THEN q ELSE q + 1

\* sameRatio(A, B), A and B being (width, height)
anyRatio(A, B) == TRUE

sameRatio(A, B) ==
    LET Aw == A[1]
        Ah == A[2]
        Bw == B[1]
        Bh == B[2]
    IN  IF 200 * abs(Ah - Aw) < Ah + Aw
          THEN IF 200 * abs(Bh - Bw) > Bh + Bw
                 THEN FALSE
                 ELSE abs(100 - round2(max2(Bh, Bw), min2(Bh, Bw))) <= 1
        ELSE IF Aw > Ah
          THEN IF ~ (Bw > Bh)
                 THEN FALSE
                 ELSE abs(round2(Aw, Ah) - round2(Bw, Bh)) <= 1
        ELSE IF ~ (Bh > Bw)
                 THEN FALSE
                 ELSE abs(round2(Ah, Aw) - round2(Bh, Bw)) <= 1

\* averageRGB of an image showing picture c
colorOfPic(c) == IF c = 1 THEN << 100, 100, 100 >> ELSE << 130, 100, 100 >>

averageRGB(p) == colorOfPic(picOf[p])

\* a Python bool used as a number
boolAsInt(b) == IF b THEN 1 ELSE 0

\* similarEnoughRGBColors: the third element of RGB is the comparison
\* abs(RGB1[2] - RGB2[2]) >= 10, a bool
similarEnoughRGBColors(RGB1, RGB2) ==
    IF RGB1 = NoColor \/ RGB2 = NoColor THEN TRUE
    ELSE LET R == abs(RGB1[1] - RGB2[1])
             G == abs(RGB1[2] - RGB2[2])
             B == boolAsInt(abs(RGB1[3] - RGB2[3]) >= 10)
         IN  ~ (R > 10 \/ G > 10 \/ B > 10 \/ R + G + B > 15)

\* sameImages: `imageA.size > imageB.size`, Python's order on (width, height)
sizeLess(A, B) == A[1] < B[1] \/ (A[1] = B[1] /\ A[2] < B[2])

\* the reverse test, which would resize the smaller image
sizeSmaller(A, B) == sizeLess(A, B)

sizeGreater(A, B) == A[1] > B[1] \/ (A[1] = B[1] /\ A[2] > B[2])

\* sameImages, lines 789-790: which of the two images is resized
resizedImage(A, B) ==
    IF sizeGreater(A, B) THEN "A"
    ELSE IF sizeLess(A, B) THEN "B"
    ELSE "none"

\* sameImages, lines 789-790: the dimensions of both images after the resize
comparedAt(A, B) == IF resizedImage(A, B) = "A" THEN B ELSE A

\* similarEnoughImages: 5 + (min(resizing, 10) // 2), where resizing is
\* max(sizeA, sizeB) / min(sizeA, sizeB) and sizeA, sizeB are width + height
toleranceByPixels(A, B) ==
    LET big == max2(A[1] * A[2], B[1] * B[2])
        small == min2(A[1] * A[2], B[1] * B[2])
    IN  IF big >= 10 * small THEN 5 + (10 \div 2)
        ELSE 5 + (big \div (2 * small))

tolerance(A, B) ==
    LET sizeA == A[1] + A[2]
        sizeB == B[1] + B[2]
        big == max2(sizeA, sizeB)
        small == min2(sizeA, sizeB)
    IN  IF big >= 10 * small THEN 5 + (10 \div 2)
        ELSE 5 + (big \div (2 * small))

\* sameImages(image, anotherImage): the mean pixel difference of two images
\* is below the tolerance exactly when they show the same picture
sameImages(a, b) == picOf[a] = picOf[b]

\* imageWithInfo
imageWithInfoNoSentinel(p) ==
    IF dimsOf[p] = Undecodable
      THEN << 1025, << 202, 197 >>, NoColor, p >>
    ELSE IF dimsOf[p][1] >= dimsOf[p][2]
      THEN << (dimsOf[p][1] * 1000) \div dimsOf[p][2], dimsOf[p], NoColor, p >>
      ELSE << -((dimsOf[p][2] * 1000) \div dimsOf[p][1]), dimsOf[p], NoColor, p >>

imageWithInfo(p) ==
    IF dimsOf[p] = Undecodable
      THEN << 0, Undecodable, << 999, 999, 999 >>, NonePath >>
    ELSE IF dimsOf[p][1] >= dimsOf[p][2]
      THEN << (dimsOf[p][1] * 1000) \div dimsOf[p][2], dimsOf[p], NoColor, p >>
      ELSE << -((dimsOf[p][2] * 1000) \div dimsOf[p][1]), dimsOf[p], NoColor, p >>

\* line 1433, inner sort: key width + height, reverse=True
largerFirst(a, b) == a[2][1] + a[2][2] > b[2][1] + b[2][2]

\* line 1433, outer sort: Python's order on the whole tuples
imageRecordLess(a, b) ==
    \/ a[1] < b[1]
    \/ a[1] = b[1] /\ a[2][1] < b[2][1]
    \/ a[1] = b[1] /\ a[2][1] = b[2][1] /\ a[2][2] < b[2][2]
    \/ a[1] = b[1] /\ a[2] = b[2] /\ a[4] < b[4]

\* fileSize of an image file, present being the files on disk
imageFileSize(p, present) == IF p \in present THEN fsizeOf[p] ELSE 0

\* order of sorted(duplicatesGroup): by (width + height, path)
groupLess(a, b) == a[1] < b[1] \/ (a[1] = b[1] /\ a[2] < b[2])

\* max(largest, key=...): the first element of the list with the largest key
RECURSIVE firstLargest(_, _)
firstLargest(l, present) ==
    IF Len(l) = 1 THEN l[1]
    ELSE LET rest == firstLargest(Tail(l), present)
         IN  IF imageFileSize(l[1], present) >= imageFileSize(rest, present)
               THEN l[1] ELSE rest

\* removeSmallerVisualDuplicates: the member that is kept
smallestOf(group, present) == SortSeq(group, groupLess)[1][2]

largestOf(group, present) ==
    LET sortedGroup == SortSeq(group, groupLess)
        largestSize == sortedGroup[Len(sortedGroup)][1]
        atLeast     == SelectSeq(sortedGroup, LAMBDA m : m[1] >= largestSize)
        largest     == [k \in 1 .. Len(atLeast) |-> atLeast[k][2]]
    IN  IF Len(largest) = 1 THEN largest[1] ELSE firstLargest(largest, present)

\* the paths of the members of a group
membersOf(group) == { group[k][2] : k \in 1 .. Len(group) }

\* removeSmallerVisualDuplicates: the members handed to removeFile
toRemove(group, present) ==
    IF Len(group) > 1
      THEN (membersOf(group) \cap present) \ { largestOf(group, present) }
      ELSE {}

InitVisual ==
    /\ \E kind \in [ImagePaths -> ImageKinds] :
         /\ dimsOf = [p \in ImagePaths |-> kind[p][1]]
         /\ picOf = [p \in ImagePaths |-> kind[p][2]]
         /\ fsizeOf = [p \in ImagePaths |-> kind[p][3]]
    /\ imageFiles = [p \in ImagePaths |-> p]
    /\ vi = 1
    /\ vj = 1
    /\ vpc = "pool"
    /\ image = NonePath
    /\ currentGroup = << >>
    /\ imageDisk = ImagePaths
    /\ imageDeleted = {}
    /\ imageFaulted = FALSE
    /\ openFailed = {}
    /\ finished = {}
    /\ vdone = 0
    /\ vDeduped = 0

\* lines 1431-1433: the pool maps the paths to their records, which are sorted
VisualPrecompute ==
    /\ vpc = "pool"
    /\ imageFiles' = SortSeq(SortSeq([k \in ImagePaths |-> imageWithInfo(imageFiles[k])],
                                     largerFirst),
                             imageRecordLess)
    /\ vi' = 1
    /\ vpc' = "outer"
    /\ UNCHANGED << dimsOf, picOf, fsizeOf, vj, image, currentGroup, imageDisk,
                    imageDeleted, imageFaulted, openFailed, finished, vdone,
                    vDeduped >>
    /\ UNCHANGED << exactVars, textVars, poolVars, callVars, earlierRun >>

\* lines 1434-1439: the head of the outer loop
VisualOuter ==
    /\ vpc = "outer"
    /\ IF vi > Len(imageFiles)
         THEN /\ vpc' = "done"
              /\ UNCHANGED << vi, vj, vdone, image, currentGroup >>
         ELSE IF imageFiles[vi][4] = NonePath
                THEN /\ vi' = vi + 1
                     /\ UNCHANGED << vpc, vj, vdone, image, currentGroup >>
                ELSE /\ vdone' = vdone + 1
                     /\ image' = NonePath
                     /\ currentGroup' = << << imageFiles[vi][2][1] + imageFiles[vi][2][2],
                                              imageFiles[vi][4] >> >>
                     /\ vj' = vi + 1
                     /\ vpc' = "inner"
                     /\ UNCHANGED vi
    /\ UNCHANGED << dimsOf, picOf, fsizeOf, imageFiles, imageDisk, imageDeleted,
                    imageFaulted, openFailed, finished, vDeduped >>
    /\ UNCHANGED << exactVars, textVars, poolVars, callVars, earlierRun >>

\* leaving the inner loop, line 1461: removeSmallerVisualDuplicates(currentGroup).
\* gone: members that something else deleted since they were opened;
\* refused: members whose removal os.remove refuses.
finishGroup ==
    \E gone \in SUBSET (membersOf(currentGroup) \cap imageDisk) :
      LET present == imageDisk \ gone
      IN  \E refused \in SUBSET toRemove(currentGroup, present) :
            LET removed == toRemove(currentGroup, present) \ refused
            IN  /\ imageDisk' = present \ removed
                /\ imageDeleted' = imageDeleted \cup removed
                /\ imageFaulted' = (imageFaulted \/ refused # {} \/ gone # {})
                /\ vDeduped' = vDeduped + Cardinality(toRemove(currentGroup, present))
                /\ finished' = membersOf(currentGroup)
                /\ vi' = vi + 1
                /\ vpc' = "outer"

\* Image.open(path) succeeds
canOpen(p, readable) == p \in imageDisk /\ readable

\* lines 1440-1461: one iteration of the inner loop on the pair (i, j).
\* readableI, readableJ: whether the file, if present, can be opened now.
VisualInner ==
    /\ vpc = "inner"
    /\ IF vj > Len(imageFiles)
         THEN /\ finishGroup
              /\ UNCHANGED << vj, imageFiles, image, currentGroup, openFailed, vdone >>
         ELSE
           IF imageFiles[vj][4] = NonePath
             THEN /\ vj' = vj + 1
                  /\ UNCHANGED << vi, vpc, imageFiles, image, currentGroup,
                                  imageDisk, imageDeleted, imageFaulted,
                                  openFailed, finished, vdone, vDeduped >>
           ELSE IF ~ sameRatio(imageFiles[vi][2], imageFiles[vj][2])
             THEN /\ finishGroup
                  /\ UNCHANGED << vj, imageFiles, image, currentGroup, openFailed, vdone >>
           ELSE IF ~ similarEnoughRGBColors(imageFiles[vi][3], imageFiles[vj][3])
             THEN /\ vj' = vj + 1
                  /\ UNCHANGED << vi, vpc, imageFiles, image, currentGroup,
                                  imageDisk, imageDeleted, imageFaulted,
                                  openFailed, finished, vdone, vDeduped >>
           ELSE
             \E readableI, readableJ \in BOOLEAN :
               LET pI == imageFiles[vi][4]
                   pJ == imageFiles[vj][4]
                   withI == IF image = NonePath /\ imageFiles[vi][3] = NoColor
                              THEN [imageFiles EXCEPT ![vi][3] = averageRGB(pI)]
                              ELSE imageFiles
               IN
               IF image = NonePath /\ ~ canOpen(pI, readableI)
                 THEN /\ openFailed' = openFailed \cup { pI }
                      /\ finishGroup
                      /\ UNCHANGED << vj, imageFiles, image, currentGroup, vdone >>
               ELSE IF ~ canOpen(pJ, readableJ)
                 THEN /\ image' = pI
                      /\ imageFiles' = [withI EXCEPT ![vj] =
                                          << 0, withI[vj][2], withI[vj][3], NonePath >>]
                      /\ openFailed' = openFailed \cup { pJ }
                      /\ vj' = vj + 1
                      /\ UNCHANGED << vi, vpc, currentGroup, imageDisk,
                                      imageDeleted, imageFaulted, finished,
                                      vdone, vDeduped >>
               ELSE LET withJ == IF withI[vj][3] = NoColor
                                   THEN [withI EXCEPT ![vj][3] = averageRGB(pJ)]
                                   ELSE withI
                    IN
                    /\ image' = pI
                    /\ IF sameImages(pI, pJ)
                         THEN /\ currentGroup' = Append(currentGroup,
                                   << withJ[vj][2][1] + withJ[vj][2][2], pJ >>)
                              /\ imageFiles' = [withJ EXCEPT ![vj] =
                                   << 0, withJ[vj][2], withJ[vj][3], NonePath >>]
                              /\ vdone' = vdone + 1
                         ELSE /\ imageFiles' = withJ
                              /\ UNCHANGED << currentGroup, vdone >>
                    /\ vj' = vj + 1
                    /\ UNCHANGED << vi, vpc, imageDisk, imageDeleted,
                                    imageFaulted, openFailed, finished, vDeduped >>
    /\ UNCHANGED << dimsOf, picOf, fsizeOf >>
    /\ UNCHANGED << exactVars, textVars, poolVars, callVars, earlierRun >>

NextVisual ==
    \/ VisualPrecompute
    \/ VisualOuter
    \/ VisualInner

(***************************************************************************)
(* Properties of the exact deduplication phase.                            *)
(***************************************************************************)
\* the files of the same (size, extension key) bucket with the same bytes
identicalInBucket(p) ==
    { q \in Paths : bytes[q] = bytes[p] /\ extensionKey(q) = extensionKey(p) }

\* C2: the exact deduplicator deletes a file j only in an iteration on a pair
\* (i, j) of unmarked records of the same size and extension key whose full
\* comparison found the bytes identical, and the file of i stays on disk,
\* its record unmarked.
C2_DeleteOnlyIdentical ==
    [][ \A p \in deleted' \ deleted :
          /\ pc = "inner" /\ j <= Len(files)
          /\ files[j][3] = p
          /\ files[i][1] # -1 /\ files[j][1] # -1
          /\ files[i][1] = files[j][1]
          /\ files[i][2] = files[j][2]
          /\ files[i][3] # p
          /\ bytes[files[i][3]] = bytes[p]
          /\ files[i][3] \in disk'
          /\ files'[i] = files[i] ]_exactVars

C2_Witness ==
    /\ last[1] = "removed"
    /\ deleted # {}
    /\ \E p \in Paths \ deleted : \A q \in Paths \ {p} : bytes[q] # bytes[p]

\* C3: when the exact deduplicator has finished and nothing but it changed the
\* files, every deletion succeeding, no two files left on disk in the same
\* (size, extension key) bucket have identical bytes, and of every set of
\* byte-identical files of one bucket exactly one is left.
C3_NoIdenticalSurvivors ==
    (pc = "done" /\ ~ faulted) =>
        /\ \A p, q \in disk :
             (p # q /\ extensionKey(p) = extensionKey(q)) => bytes[p] # bytes[q]
        /\ \A p \in Paths : Cardinality(identicalInBucket(p) \cap disk) = 1

C3_Witness ==
    /\ pc = "done" /\ ~ faulted /\ run = 1
    /\ \E p \in Paths : Cardinality(identicalInBucket(p)) = 3
    /\ Cardinality(disk) = NumFiles - 2

\* C4: at every point of a run in which nothing but the deduplicator changed
\* the files, every file deleted so far has a byte-identical file of the same
\* bucket still on disk.
C4_DeletedHasTwinOnDisk ==
    ~ faulted =>
        \A p \in deleted : (identicalInBucket(p) \ {p}) \cap disk # {}

C4_Witness ==
    /\ ~ faulted /\ pc = "inner" /\ deleted # {}
    /\ \E p \in disk : \E q \in disk : p # q /\ bytes[p] = bytes[q]

\* C9: a filesystem error raised by the comparison of two files does not end
\* the scan: the pair counts as not a duplicate and the scan goes on.
C9_CompareErrorDoesNotAbort ==
    last[1] = "raised" => pc # "aborted"

firstFour(p) == SubSeq(bytes[p], 1, 4)

lastFour(p) == SubSeq(bytes[p], Len(bytes[p]) - 3, Len(bytes[p]))

\* the last inner iteration called filecmp.cmp on its pair
fullyCompared == last[1] \in { "raised", "removed", "refused", "gone", "differ" }

\* C11: the exact deduplicator performs no full comparison of two files (of
\* four bytes or more) whose first four bytes differ or whose last four bytes
\* differ.
C11_NoFullCompareOnSignatureMismatch ==
    fullyCompared =>
        LET a == files[last[2]][3]
            b == files[last[3]][3]
        IN  Len(bytes[a]) >= 4 =>
              /\ firstFour(a) = firstFour(b)
              /\ lastFour(a) = lastFour(b)

\* the files with the bytes of p, and those of them with the extension of p
identicalTo(p) == { q \in Paths : bytes[q] = bytes[p] }

identicalWithExtension(p) == { q \in identicalTo(p) : extOf[q] = extOf[p] }

\* C13: when the exact deduplicator has finished (nothing else having changed
\* the files, every deletion succeeding): with -d, of the byte-identical files
\* exactly one is left whatever their extensions; without -d, of the
\* byte-identical files exactly one per extension is left, so that two
\* byte-identical files with different extensions and no further copy both
\* survive.
C13_ExtensionKeyOnlyWithoutD ==
    (pc = "done" /\ ~ faulted) =>
        \A p \in Paths :
            IF option_dedupAcrossExtensions
              THEN Cardinality(identicalTo(p) \cap disk) = 1
              ELSE /\ Cardinality(identicalWithExtension(p) \cap disk) = 1
                   /\ identicalWithExtension(p) = {p} => p \in disk

C13_Witness ==
    /\ pc = "done" /\ ~ faulted /\ run = 1
    /\ option_dedupAcrossExtensions
    /\ \E p \in deleted : \E q \in disk :
          bytes[p] = bytes[q] /\ extOf[p] # extOf[q]

\* C15: when the file of the seed i is found missing, the record j under
\* examination is not marked as removed (it stays in the list to be the next
\* seed).
C15_VanishedSeedLeavesCandidate ==
    last[1] = "igone" => files[last[3]][1] # -1

\* the pair (i, j) under examination is one of unmarked records of the same
\* size, signature and extension key, the file of i is there and the file of
\* j is missing
candidateMissing ==
    /\ pc = "inner" /\ j <= Len(files)
    /\ files[i][1] # -1 /\ files[j][1] # -1
    /\ files[i][1] = files[j][1]
    /\ signatures[i] = signatures[j] /\ tails[i] = tails[j]
    /\ files[i][2] = files[j][2]
    /\ files[i][3] \in disk
    /\ files[j][3] \notin disk

\* C16: the iteration that finds the file of the candidate j missing marks j,
\* counts no removed duplicate, deletes nothing, and the scan goes on with the
\* same seed i and the record after j.
C16_MissingCandidateIsSkipped ==
    [][ (candidateMissing /\ << i, j, pc >>' # << i, j, pc >>) =>
          /\ files'[j][1] = -1
          /\ \A k \in 1 .. Len(files) : k # j => files'[k] = files[k]
          /\ actuallyDeduped' = actuallyDeduped
          /\ deleted' = deleted
          /\ disk' = disk
          /\ i' = i /\ j' = j + 1 /\ pc' = "inner" ]_exactVars

C16_Witness ==
    /\ last[1] = "jgone"
    /\ pc = "inner"
    /\ j = last[3] + 1
    /\ files[last[3]][1] = -1
    /\ j <= Len(files)
    /\ actuallyDeduped = 0

\* C17: every step of a run that deletes a file, or attempts to, is an inner
\* iteration on a pair (i, j) that found the file of the seed i on disk.
C17_DeletionOnlyWithSeedOnDisk ==
    [][ (run' = run /\ (deleted' # deleted \/ actuallyDeduped' # actuallyDeduped)) =>
          /\ pc = "inner" /\ j <= Len(files)
          /\ files[i][1] # -1
          /\ files[i][3] \in disk
          /\ files[i][3] # files[j][3]
          /\ deleted' \ deleted \subseteq { files[j][3] } ]_exactVars

C17_Witness ==
    /\ last[1] = "removed"
    /\ faulted
    /\ files[last[2]][3] \in disk
    /\ files[last[3]][3] \in deleted

\* C18: when the exact deduplicator has finished (nothing else having changed
\* the files, every deletion succeeding), a file is left on disk exactly if
\* it has the smallest path of the byte-identical files of its bucket.
C18_SmallestPathSurvives ==
    (pc = "done" /\ ~ faulted) =>
        \A p \in Paths :
            p \in disk <=> \A q \in identicalInBucket(p) : p <= q

C18_Witness ==
    /\ pc = "done" /\ ~ faulted /\ run = 1
    /\ \E p \in disk : \E q \in deleted :
          /\ q \in identicalInBucket(p)
          /\ p < q
          /\ \E r \in disk : r > q

\* C30: the count of removed duplicates the exact deduplicator reports is the
\* number of files it deleted from disk, also when a deletion is refused or
\* the file is already gone.
C30_ReportedCountIsDeletedCount ==
    pc = "done" => actuallyDeduped = Cardinality(deleted)

(***************************************************************************)
(* Properties of the plain-text deduplication phase.                       *)
(***************************************************************************)
normalizedOf(p) == preprocessedText(rawText[p])

\* C1: the text deduplicator deletes a file only if its own normalized content
\* equals that of a file that stays on disk: a file whose normalized content
\* differs from that of every other candidate is never deleted.
C1_TextDeletedHasEqualSurvivor ==
    \A p \in textDeleted :
        \E q \in textDisk : q # p /\ normalizedOf(q) = normalizedOf(p)

\* C5: of any two candidates with equal, non-empty normalized contents exactly
\* one file of their class is left when the text deduplicator has finished
\* (every deletion succeeding).
C5_OneOfEqualTextsSurvives ==
    (tpc = "done" /\ ~ textFaulted) =>
        \A p, q \in TextPaths :
            (p # q /\ normalizedOf(p) # << >> /\ normalizedOf(p) = normalizedOf(q))
                => Cardinality({ r \in textDisk : normalizedOf(r) = normalizedOf(p) }) = 1

\* C14: after the precomputation of the text phase the result at index k is
\* the feature of the path handed in at index k, and the scan pairs the record
\* at every index with the feature of its own path.
C14_ScanPairsPathWithItsFeature ==
    tpc \in { "outer", "inner", "done" } =>
        /\ \A k \in TextPaths : contents[k] = normalizedOf(walkOrder[k])
        /\ \A k \in TextPaths :
              textFiles[k][2] # NonePath =>
                  contents[k] = normalizedOf(textFiles[k][2])

\* the files with the normalized content of p
textClass(p) == { q \in TextPaths : normalizedOf(q) = normalizedOf(p) }

\* C20: the text scan goes through the records by length descending and, for
\* equal lengths, by path ascending, and when it has finished (every deletion
\* succeeding) the file left of each class of equal non-empty normalized
\* content is its first member in that order, the one with the smallest path.
C20_FirstOfClassSurvives ==
    /\ tpc \in { "outer", "inner" } =>
          \A k, l \in 1 .. Len(textFiles) :
              (k < l /\ textFiles[k][2] # NonePath /\ textFiles[l][2] # NonePath) =>
                  \/ textFiles[k][1] > textFiles[l][1]
                  \/ /\ textFiles[k][1] = textFiles[l][1]
                     /\ textFiles[k][2] < textFiles[l][2]
    /\ (tpc = "done" /\ ~ textFaulted) =>
          \A p \in TextPaths :
              normalizedOf(p) # << >> =>
                  (p \in textDisk <=> \A q \in textClass(p) : p <= q)

(***************************************************************************)
(* Properties of the visual image deduplication phase.                     *)
(***************************************************************************)
pixelCount(p) == dimsOf[p][1] * dimsOf[p][2]

widthPlusHeight(p) == dimsOf[p][1] + dimsOf[p][2]

\* the orientation class of a (width, height): square when the sides differ
\* by less than 1% of their mean
orientationClass(A) ==
    IF 200 * abs(A[2] - A[1]) < A[1] + A[2] THEN "square"
    ELSE IF A[1] > A[2] THEN "landscape"
    ELSE "portrait"

\* the aspect ratio (long side over short side) in hundredths
ratioOf(A) == round2(max2(A[1], A[2]), min2(A[1], A[2]))

\* B is ratio-compatible with A: the class of A, the ratio of A within 0.01
compatibleWith(A, B) ==
    CASE orientationClass(A) = "square" ->
           200 * abs(B[2] - B[1]) <= B[1] + B[2] /\ abs(100 - ratioOf(B)) <= 1
      [] orientationClass(A) = "landscape" ->
           B[1] > B[2] /\ abs(ratioOf(A) - ratioOf(B)) <= 1
      [] OTHER ->
           B[2] > B[1] /\ abs(ratioOf(A) - ratioOf(B)) <= 1

\* C6: when a group of matched images is finished (every deletion succeeding,
\* no member deleted by something else), exactly one member is left on disk
\* and it is the member with the largest pixel count width * height, a tie
\* being broken by the largest file size.
C6_KeepsLargestPixelCount ==
    (Cardinality(finished) > 1 /\ ~ imageFaulted) =>
        \E s \in finished :
            /\ finished \cap imageDisk = { s }
            /\ \A m \in finished :
                 \/ pixelCount(m) < pixelCount(s)
                 \/ pixelCount(m) = pixelCount(s) /\ fsizeOf[m] <= fsizeOf[s]

\* C6 as amended: when a group of matched images is finished (every deletion
\* succeeding, no member deleted by something else), exactly one member is
\* left on disk and it is a member with the largest width + height, a tie
\* being broken by the largest file size.
C6_KeepsLargestWidthPlusHeight ==
    (Cardinality(finished) > 1 /\ ~ imageFaulted) =>
        \E s \in finished :
            /\ finished \cap imageDisk = { s }
            /\ finished \ { s } \subseteq imageDeleted
            /\ \A m \in finished :
                 \/ widthPlusHeight(m) < widthPlusHeight(s)
                 \/ widthPlusHeight(m) = widthPlusHeight(s) /\ fsizeOf[m] <= fsizeOf[s]

C6_Witness ==
    /\ Cardinality(finished) = 3 /\ ~ imageFaulted
    /\ \E s \in finished \cap imageDisk : \E m, n \in imageDeleted \cap finished :
         /\ widthPlusHeight(m) < widthPlusHeight(s)
         /\ widthPlusHeight(n) = widthPlusHeight(s) /\ fsizeOf[n] < fsizeOf[s]

\* C7: two images are never in one group unless their aspect ratios agree
\* within the tolerance and they are in the same orientation class.
C7_GroupMembersAgreePairwise ==
    \A a, b \in membersOf(currentGroup) :
        compatibleWith(dimsOf[a], dimsOf[b]) \/ compatibleWith(dimsOf[b], dimsOf[a])

\* C7 as amended: an image is never added to a group unless its aspect ratio
\* agrees with that of the group's seed within the tolerance and it is in the
\* orientation class of the seed, whatever the pictures and colors are.
C7_GroupMembersAgreeWithSeed ==
    \A k \in 2 .. Len(currentGroup) :
        compatibleWith(dimsOf[currentGroup[1][2]], dimsOf[currentGroup[k][2]])

C7_Witness ==
    /\ vpc = "outer" /\ Len(currentGroup) = 2
    /\ \E p \in ImagePaths \ membersOf(currentGroup) :
         /\ dimsOf[p] # Undecodable
         /\ p \notin openFailed
         /\ picOf[p] = picOf[currentGroup[1][2]]
         /\ ~ compatibleWith(dimsOf[currentGroup[1][2]], dimsOf[p])

\* C8: an image that fails to decode in the precomputation, or that fails to
\* open during the scan, is never deleted and never a member of a group of
\* two or more images.
C8_UnreadableImageKept ==
    \A p \in ImagePaths :
        (dimsOf[p] = Undecodable \/ p \in openFailed) =>
            /\ p \notin imageDeleted
            /\ Len(currentGroup) > 1 => p \notin membersOf(currentGroup)
            /\ Cardinality(finished) > 1 => p \notin finished

C8_Witness ==
    /\ vpc = "done"
    /\ \E r \in ImagePaths : dimsOf[r] = Undecodable
    /\ \E p \in openFailed : \E q \in ImagePaths \ { p } :
         /\ dimsOf[q] # Undecodable
         /\ picOf[q] = picOf[p]
         /\ compatibleWith(dimsOf[p], dimsOf[q])

(***************************************************************************)
(* The feature precomputation pool: p.map(function, files) with the shared *)
(* progress counter i = SharedValue('i', 0).                               *)
(***************************************************************************)
\* number of worker processes: len(os.sched_getaffinity(0))
NumWorkers == 2

Workers == 1 .. NumWorkers

NoWorker == 0

\* the indices of the list handed to p.map
poolInputs == DOMAIN results

\* `with i.get_lock()`: the lock is taken only when no worker holds it
lockIgnored == TRUE

lockFree == lockHolder = NoWorker

\* the feature of the path at index k of the list handed to p.map (the
\* listing of the .txt files, or the listing of the images, where the path at
\* index k is k): the function given to p.map applied to it
featureOf(k) ==
    IF tpc # "off" THEN preprocessedText(rawText[walkOrder[k]])
    ELSE imageWithInfo(k)

\* what the slot of an index holds before its feature has come back
noFeatureYet(forText) ==
    IF forText THEN << >>
    ELSE << 0, Undecodable, << 999, 999, 999 >>, NonePath >>

InitPool(n, forText) ==
    /\ counter = 0
    /\ lockHolder = NoWorker
    /\ wpc = [w \in Workers |-> "idle"]
    /\ wtask = [w \in Workers |-> 0]
    /\ wtmp = [w \in Workers |-> 0]
    /\ pending = 1 .. n
    /\ results = [k \in 1 .. n |-> noFeatureYet(forText)]
    /\ returned = {}

\* a worker takes the next path of the list
PoolTake(w) ==
    /\ tpc = "pool" \/ vpc = "pool"
    /\ wpc[w] = "idle"
    /\ pending # {}
    /\ LET k == CHOOSE x \in pending : \A y \in pending : x <= y
       IN  /\ wtask' = [wtask EXCEPT ![w] = k]
           /\ pending' = pending \ { k }
    /\ wpc' = [wpc EXCEPT ![w] = "acquire"]
    /\ UNCHANGED << counter, lockHolder, wtmp, results, returned >>
    /\ UNCHANGED << exactVars, textVars, visualVars, callVars, earlierRun >>

\* with i.get_lock():
PoolAcquire(w) ==
    /\ wpc[w] = "acquire"
    /\ lockFree
    /\ lockHolder' = w
    /\ wpc' = [wpc EXCEPT ![w] = "read"]
    /\ UNCHANGED << counter, wtask, wtmp, pending, results, returned >>
    /\ UNCHANGED << exactVars, textVars, visualVars, callVars, earlierRun >>

\* i.value += 1: the value is read ...
PoolRead(w) ==
    /\ wpc[w] = "read"
    /\ wtmp' = [wtmp EXCEPT ![w] = counter]
    /\ wpc' = [wpc EXCEPT ![w] = "write"]
    /\ UNCHANGED << counter, lockHolder, wtask, pending, results, returned >>
    /\ UNCHANGED << exactVars, textVars, visualVars, callVars, earlierRun >>

\* ... and written back, one higher
PoolWrite(w) ==
    /\ wpc[w] = "write"
    /\ counter' = wtmp[w] + 1
    /\ wpc' = [wpc EXCEPT ![w] = "release"]
    /\ UNCHANGED << lockHolder, wtask, wtmp, pending, results, returned >>
    /\ UNCHANGED << exactVars, textVars, visualVars, callVars, earlierRun >>

\* the end of the with block
PoolRelease(w) ==
    /\ wpc[w] = "release"
    /\ lockHolder' = NoWorker
    /\ wpc' = [wpc EXCEPT ![w] = "compute"]
    /\ UNCHANGED << counter, wtask, wtmp, pending, results, returned >>
    /\ UNCHANGED << exactVars, textVars, visualVars, callVars, earlierRun >>

\* the feature is computed and comes back to the slot of its index
PoolCompute(w) ==
    /\ wpc[w] = "compute"
    /\ results' = [results EXCEPT ![wtask[w]] = featureOf(wtask[w])]
    /\ returned' = returned \cup { wtask[w] }
    /\ wtask' = [wtask EXCEPT ![w] = 0]
    /\ wpc' = [wpc EXCEPT ![w] = "idle"]
    /\ UNCHANGED << counter, lockHolder, wtmp, pending >>
    /\ UNCHANGED << exactVars, textVars, visualVars, callVars, earlierRun >>

\* p.map returns when every feature has come back
returnedOrNot == TRUE

allReturned == returned = poolInputs


\* line 1384-1387: p.map returns the features in the order of its input; each
\* path becomes a (length, path) record and the records are sorted in reverse
TextPoolReturn ==
    /\ tpc = "pool"
    /\ allReturned
    /\ contents' = results
    /\ textFiles' = SortSeq([k \in TextPaths |-> << Len(contents'[k]), textFiles[k] >>],
                            textRecordAfter)
    /\ ti' = 1
    /\ tpc' = "outer"
    /\ UNCHANGED << rawText, walkOrder, tj, textDisk, textDeleted, textFaulted,
                    tdone, tDeduped >>
    /\ UNCHANGED << exactVars, visualVars, poolVars, callVars, earlierRun >>

\* lines 1431-1433: p.map returns the records in the order of its input, and
\* they are sorted
VisualPoolReturn ==
    /\ vpc = "pool"
    /\ allReturned
    /\ imageFiles' = SortSeq(SortSeq(results, largerFirst), imageRecordLess)
    /\ vi' = 1
    /\ vpc' = "outer"
    /\ UNCHANGED << dimsOf, picOf, fsizeOf, vj, image, currentGroup, imageDisk,
                    imageDeleted, imageFaulted, openFailed, finished, vdone,
                    vDeduped >>
    /\ UNCHANGED << exactVars, textVars, poolVars, callVars, earlierRun >>

\* no pool is running
IdlePool ==
    /\ counter = 0
    /\ lockHolder = NoWorker
    /\ wpc = [w \in Workers |-> "idle"]
    /\ wtask = [w \in Workers |-> 0]
    /\ wtmp = [w \in Workers |-> 0]
    /\ pending = {}
    /\ results = << >>
    /\ returned = {}

\* no single function call, no earlier run
NoResult == "none"

\* no run came before this one
NoEarlierRun == << >>

IdleCall ==
    /\ fn = "none"
    /\ args = << >>
    /\ result = NoResult
    /\ earlierRun = NoEarlierRun

\* the texts and the images of the runs with the pool spelled out
PoolTexts == { << "a" >>, << "unreadable" >> }

PoolKinds == { << << 202, 197 >>, 1, 10 >>, << Undecodable, 1, 10 >> }

(***************************************************************************)
(* The specifications: one per phase, the other phases idle.               *)
(***************************************************************************)
IdleExact ==
    /\ bytes = [p \in Paths |-> << 0 >>]
    /\ extOf = [p \in Paths |-> ".bin"]
    /\ option_dedupAcrossExtensions = FALSE
    /\ disk = {}
    /\ files = << >>
    /\ signatures = << >>
    /\ tails = << >>
    /\ i = 1
    /\ j = 1
    /\ pc = "off"
    /\ done = 0
    /\ actuallyDeduped = 0
    /\ run = 1
    /\ deleted = {}
    /\ faulted = FALSE
    /\ last = << "none", 0, 0 >>

IdleText ==
    /\ rawText = [p \in TextPaths |-> << "a" >>]
    /\ walkOrder = [p \in TextPaths |-> p]
    /\ contents = << >>
    /\ textFiles = << >>
    /\ ti = 1
    /\ tj = 1
    /\ tpc = "off"
    /\ textDisk = {}
    /\ textDeleted = {}
    /\ textFaulted = FALSE
    /\ tdone = 0
    /\ tDeduped = 0

IdleVisual ==
    /\ dimsOf = [p \in ImagePaths |-> Undecodable]
    /\ picOf = [p \in ImagePaths |-> 1]
    /\ fsizeOf = [p \in ImagePaths |-> 10]
    /\ imageFiles = << >>
    /\ vi = 1
    /\ vj = 1
    /\ vpc = "off"
    /\ image = NonePath
    /\ currentGroup = << >>
    /\ imageDisk = {}
    /\ imageDeleted = {}
    /\ imageFaulted = FALSE
    /\ openFailed = {}
    /\ finished = {}
    /\ vdone = 0
    /\ vDeduped = 0

ExactOnly == InitExact /\ IdleText /\ IdleVisual /\ IdlePool /\ IdleCall

SpecExact == ExactOnly /\ [][NextExact]_vars

TextOnly == InitText /\ IdleExact /\ IdleVisual /\ IdlePool /\ IdleCall

SpecText == TextOnly /\ [][NextText]_vars

VisualOnly == InitVisual /\ IdleExact /\ IdleText /\ IdlePool /\ IdleCall

SpecVisual == VisualOnly /\ [][NextVisual]_vars

\* any one of the three phases, run alone (with -d the extensions are never
\* read, so one choice of them stands for all)
ScansInit ==
    \/ /\ ExactOnly
       /\ option_dedupAcrossExtensions => extOf = [p \in Paths |-> ".bin"]
    \/ TextOnly
    \/ VisualOnly

NextScans == NextExact \/ NextText \/ NextVisual

SpecScans == ScansInit /\ [][NextScans]_vars

\* the text phase or the visual phase, run alone, with the workers of its pool
PoolInit ==
    \/ /\ InitText
       /\ rawText \in [TextPaths -> PoolTexts]
       /\ IdleExact /\ IdleVisual
       /\ InitPool(NumTexts, TRUE)
       /\ IdleCall
    \/ /\ InitVisual
       /\ \A p \in ImagePaths : << dimsOf[p], picOf[p], fsizeOf[p] >> \in PoolKinds
       /\ IdleExact /\ IdleText
       /\ InitPool(NumImages, FALSE)
       /\ IdleCall

PoolWorker ==
    \E w \in Workers :
        \/ PoolTake(w)
        \/ PoolAcquire(w)
        \/ PoolRead(w)
        \/ PoolWrite(w)
        \/ PoolRelease(w)
        \/ PoolCompute(w)

NextPool ==
    \/ PoolWorker
    \/ TextPoolReturn
    \/ TextOuter
    \/ TextInner
    \/ VisualPoolReturn
    \/ VisualOuter
    \/ VisualInner

SpecPool == PoolInit /\ [][NextPool]_vars

(***************************************************************************)
(* Single calls of the functions of the visual phase, on arguments drawn   *)
(* from small sets.                                                        *)
(***************************************************************************)
\* values of a color channel: differences of 0, 4, 6, 10 and 11 occur
ChannelValues == { 0, 6, 10, 11 }

\* average colors: what averageRGB returns, None among them
Colors == (ChannelValues \X ChannelValues \X ChannelValues) \cup { NoColor }

InitColors ==
    /\ fn = "none"
    /\ args \in Colors \X Colors
    /\ result = NoResult
    /\ earlierRun = NoEarlierRun

\* similarEnoughRGBColors(RGB1, RGB2) is called
CallSimilarEnoughRGBColors ==
    /\ fn = "none"
    /\ args \in Colors \X Colors
    /\ fn' = "similarEnoughRGBColors"
    /\ result' = similarEnoughRGBColors(args[1], args[2])
    /\ UNCHANGED << args, earlierRun >>
    /\ UNCHANGED << exactVars, textVars, visualVars, poolVars >>

\* the sides of an image, and the sizes of the images sameImages is given
SideValues == { 1, 10, 20, 40, 100, 300 }

Sizes == SideValues \X SideValues

InitSameImages ==
    /\ fn = "none"
    /\ args \in Sizes \X Sizes
    /\ result = NoResult
    /\ earlierRun = NoEarlierRun

\* sameImages(imageA, imageB) is called: which image it resizes, the dimensions
\* it compares at, and the tolerance it hands to the comparison
CallSameImages ==
    /\ fn = "none"
    /\ args \in Sizes \X Sizes
    /\ fn' = "sameImages"
    /\ result' = [ resized |-> resizedImage(args[1], args[2]),
                   comparedAt |-> comparedAt(args[1], args[2]),
                   tolerance |-> tolerance(args[1], args[2]) ]
    /\ UNCHANGED << args, earlierRun >>
    /\ UNCHANGED << exactVars, textVars, visualVars, poolVars >>

SameImagesOnly == InitSameImages /\ IdleExact /\ IdleText /\ IdleVisual /\ IdlePool

SpecSameImages == SameImagesOnly /\ [][CallSameImages]_vars

\* the texts of the files that are deduplicated twice
RerunTexts == { << "a" >>, << "b" >> }

TwoRunsInit == TextOnly /\ rawText \in [TextPaths -> RerunTexts]

\* lines 1370-1372: the program is run again on the same files (those the
\* first run deleted put back), os.walk yielding them in any order
TextRerun ==
    /\ tpc = "done"
    /\ earlierRun = NoEarlierRun
    /\ ~ textFaulted
    /\ earlierRun' = << textDeleted >>
    /\ walkOrder' \in walkOrders
    /\ contents' = << >>
    /\ textFiles' = walkOrder'
    /\ ti' = 1
    /\ tj' = 1
    /\ tpc' = "pool"
    /\ textDisk' = TextPaths
    /\ textDeleted' = {}
    /\ tdone' = 0
    /\ tDeduped' = 0
    /\ UNCHANGED << rawText, textFaulted >>
    /\ UNCHANGED << exactVars, visualVars, poolVars, callVars >>

NextTwoRuns ==
    \/ TextPrecompute
    \/ TextOuter
    \/ TextInner
    \/ TextRerun

SpecTwoRuns == TwoRunsInit /\ [][NextTwoRuns]_vars

ColorsOnly == InitColors /\ IdleExact /\ IdleText /\ IdleVisual /\ IdlePool

SpecColors == ColorsOnly /\ [][CallSimilarEnoughRGBColors]_vars

(***************************************************************************)
(* The script as a whole: the three phases in the order of the source,     *)
(* each with its own listing of the directory, on a reduced set of inputs. *)
(***************************************************************************)
\* the texts and the images of the runs of the whole script
ProgramTexts == { << "a" >> }

ProgramKinds == { << << 202, 197 >>, 1, 10 >>, << << 300, 400 >>, 1, 10 >> }

\* line 1091: the exact phase has run to its end
exactOver == pc = "done"

\* lines 1406-1407: the text phase has run to its end
textNotAwaited == TRUE

textOver == tpc = "done"

ProgramInit ==
    /\ ExactOnly
    /\ extOf = [p \in Paths |-> ".bin"]
    /\ bytes = [p \in Paths |-> <<0, 0, 0, 0, 0>>]

\* lines 1364-1373: the text phase starts with its own listing of the .txt files
StartText ==
    /\ exactOver
    /\ tpc = "off"
    /\ rawText' \in [TextPaths -> ProgramTexts]
    /\ walkOrder' = [p \in TextPaths |-> p]
    /\ contents' = << >>
    /\ textFiles' = walkOrder'
    /\ ti' = 1
    /\ tj' = 1
    /\ tpc' = "pool"
    /\ textDisk' = TextPaths
    /\ textDeleted' = {}
    /\ textFaulted' = FALSE
    /\ tdone' = 0
    /\ tDeduped' = 0
    /\ UNCHANGED << exactVars, visualVars, poolVars, callVars, earlierRun >>

\* lines 1413-1430: the visual phase starts with its own listing of the images
StartVisual ==
    /\ textOver
    /\ vpc = "off"
    /\ \E kind \in [ImagePaths -> ProgramKinds] :
         /\ dimsOf' = [p \in ImagePaths |-> kind[p][1]]
         /\ picOf' = [p \in ImagePaths |-> kind[p][2]]
         /\ fsizeOf' = [p \in ImagePaths |-> kind[p][3]]
    /\ imageFiles' = [p \in ImagePaths |-> p]
    /\ vi' = 1
    /\ vj' = 1
    /\ vpc' = "pool"
    /\ image' = NonePath
    /\ currentGroup' = << >>
    /\ imageDisk' = ImagePaths
    /\ imageDeleted' = {}
    /\ imageFaulted' = FALSE
    /\ openFailed' = {}
    /\ finished' = {}
    /\ vdone' = 0
    /\ vDeduped' = 0
    /\ UNCHANGED << exactVars, textVars, poolVars, callVars, earlierRun >>

NextProgram ==
    \/ ExactPreanalyse
    \/ ExactOuter
    \/ ExactInner
    \/ StartText
    \/ TextPrecompute
    \/ TextOuter
    \/ TextInner
    \/ StartVisual
    \/ VisualPrecompute
    \/ VisualOuter
    \/ VisualInner

SpecProgram == ProgramInit /\ [][NextProgram]_vars

(***************************************************************************)
(* Properties of the script as a whole.                                    *)
(***************************************************************************)
\* C12: the exact phase is over before the visual phase begins, and the
\* visual phase is over before the text phase begins.
C12_ExactThenVisualThenText ==
    /\ vpc # "off" => pc = "done"
    /\ tpc # "off" => vpc = "done"

\* C12 as amended: the exact phase is over before the text phase begins, and
\* the text phase is over before the visual phase begins.
C12_ExactThenTextThenVisual ==
    /\ tpc # "off" => pc = "done"
    /\ vpc # "off" => tpc = "done"

C12_Witness ==
    /\ vpc = "inner"
    /\ deleted # {}
    /\ textDeleted # {}


(***************************************************************************)
(* Properties of the three scans.                                          *)
(***************************************************************************)
\* the marks of the exact scan: a marked record stays marked, the seed of an
\* inner loop is unmarked, and a step of the scan on a marked candidate does
\* nothing but go to the next candidate
exactMarksKept ==
    /\ run' = run =>
          \A k \in 1 .. Len(files) : files[k][1] = -1 => files'[k][1] = -1
    /\ pc = "inner" => files[i][1] # -1
    /\ (pc = "inner" /\ j <= Len(files) /\ files[j][1] = -1
            /\ << i, j, pc >>' # << i, j, pc >>) =>
          /\ j' = j + 1 /\ i' = i /\ pc' = pc
          /\ UNCHANGED << files, disk, deleted, done, actuallyDeduped >>

\* the marks of the text scan
textMarksKept ==
    /\ tpc \in { "outer", "inner", "done" } =>
          \A k \in 1 .. Len(textFiles) :
              textFiles[k][2] = NonePath => textFiles'[k][2] = NonePath
    /\ tpc = "inner" => textFiles[ti][2] # NonePath
    /\ (tpc = "inner" /\ tj <= Len(textFiles) /\ textFiles[tj][2] = NonePath) =>
          \/ UNCHANGED textVars
          \/ /\ tj' = tj + 1 /\ ti' = ti /\ tpc' = tpc
             /\ UNCHANGED << textFiles, textDisk, textDeleted, tdone, tDeduped >>

\* the marks of the visual scan
visualMarksKept ==
    /\ vpc \in { "outer", "inner", "done" } =>
          \A k \in 1 .. Len(imageFiles) :
              imageFiles[k][4] = NonePath => imageFiles'[k][4] = NonePath
    /\ vpc = "inner" => imageFiles[vi][4] # NonePath
    /\ (vpc = "inner" /\ vj <= Len(imageFiles) /\ imageFiles[vj][4] = NonePath) =>
          \/ UNCHANGED visualVars
          \/ /\ vj' = vj + 1 /\ vi' = vi /\ vpc' = vpc
             /\ UNCHANGED << imageFiles, currentGroup, imageDisk, imageDeleted,
                             vdone, vDeduped >>

\* C19: in each of the three scans a record once marked as removed stays
\* marked, and it is used neither as the seed i nor as the candidate j of a
\* comparison from then on.
C19_MarkedStaysMarkedAndSkipped ==
    [][ exactMarksKept /\ textMarksKept /\ visualMarksKept ]_vars

C19_Witness ==
    /\ tpc = "inner"
    /\ textFiles[ti][2] # NonePath
    /\ \E k \in 1 .. Len(textFiles) :
          /\ ti < k /\ k < tj
          /\ textFiles[k][2] = NonePath
    /\ \E k \in 1 .. Len(textFiles) : k < ti /\ textFiles[k][2] # NonePath


\* the file cannot be read, or holds nothing but whitespace
unreadableOrBlank(p) ==
    \/ rawText[p] = << "unreadable" >>
    \/ \A k \in 1 .. Len(rawText[p]) : isSpace(rawText[p][k])

\* C28: a text file that cannot be read, or whose normalized content is
\* empty, gets the empty content from the worker and is never deleted by the
\* text deduplicator.
C28_UnreadableOrEmptyTextIsKept ==
    /\ \A p \in TextPaths : unreadableOrBlank(p) => p \notin textDeleted
    /\ tpc \in { "outer", "inner", "done" } =>
          \A k \in TextPaths : unreadableOrBlank(walkOrder[k]) => contents[k] = << >>

C28_Witness ==
    /\ tpc = "done"
    /\ textDeleted # {}
    /\ \E p \in textDisk : rawText[p] = << "unreadable" >>

\* C29: the files the text deduplicator deletes do not depend on the order in
\* which the paths were enumerated: two runs on the same files, given in
\* different orders, delete the same files (every deletion succeeding).
C29_SameDeletionsInAnyOrder ==
    (tpc = "done" /\ earlierRun # NoEarlierRun /\ ~ textFaulted) =>
        earlierRun = << textDeleted >>

(***************************************************************************)
(* Properties of the precomputation pool.                                  *)
(***************************************************************************)
\* the workers that have incremented the counter for the path they work on
incrementedFor == { w \in Workers : wpc[w] \in { "release", "compute" } }

\* C21: with the workers interleaved in any way, the counter changes only by
\* one worker adding one while it holds the lock, it never decreases, it
\* counts exactly the paths a worker has incremented it for, and when every
\* feature has come back it equals the number of input paths.
C21_CounterCountsEveryFile ==
    [][ /\ counter' >= counter
        /\ counter' # counter =>
              /\ counter' = counter + 1
              /\ \E w \in Workers :
                    /\ lockHolder = w
                    /\ wpc[w] = "write" /\ wpc'[w] = "release"
        /\ counter = Cardinality(returned) + Cardinality(incrementedFor)
        /\ allReturned' => counter' = Cardinality(poolInputs) ]_vars

C21_Witness ==
    /\ tpc = "outer"
    /\ allReturned
    /\ counter = NumTexts
    /\ \E k \in poolInputs : results[k] = << >>
    /\ \E k \in poolInputs : results[k] # << >>

\* a pool is running: p.map has not returned
poolRunning == tpc = "pool" \/ vpc = "pool"

\* a worker is still at work or a feature has not come back
workersBusy == returned # poolInputs \/ \E w \in Workers : wpc[w] # "idle"

\* C22: while a pool is running, and as long as any worker is at work, no file
\* has been deleted and no record has been marked as removed; every deletion
\* and every mark comes after all the features have come back.
C22_NoRemovalWhilePoolRuns ==
    /\ (poolRunning \/ workersBusy) =>
          /\ textDeleted = {} /\ imageDeleted = {}
          /\ tDeduped = 0 /\ vDeduped = 0
          /\ tpc # "off" => textDisk = TextPaths
          /\ vpc # "off" => imageDisk = ImagePaths
          /\ tpc \in { "outer", "inner", "done" } =>
                \A k \in 1 .. Len(textFiles) : textFiles[k][2] # NonePath
          /\ vpc \in { "outer", "inner", "done" } =>
                \A k \in 1 .. Len(imageFiles) :
                    imageFiles[k][4] = NonePath => imageFiles[k][2] = Undecodable
    /\ tpc = "pool" => textFiles = walkOrder
    /\ vpc = "pool" => imageFiles = [p \in ImagePaths |-> p]

C22_Witness ==
    /\ ~ poolRunning /\ ~ workersBusy
    /\ textDeleted # {}
    /\ \E k \in 1 .. Len(textFiles) : textFiles[k][2] = NonePath


(***************************************************************************)
(* Properties of the functions of the visual phase.                        *)
(***************************************************************************)
\* the absolute differences of the channels of two known colors
channelDifferences(c1, c2) ==
    << abs(c1[1] - c2[1]), abs(c1[2] - c2[2]), abs(c1[3] - c2[3]) >>

\* the cheap color test as stated: some channel differs by more than 10 or
\* the differences add up to more than 15
colorsTooFar(c1, c2) ==
    LET d == channelDifferences(c1, c2)
    IN  d[1] > 10 \/ d[2] > 10 \/ d[3] > 10 \/ d[1] + d[2] + d[3] > 15

\* C23: the cheap color test rejects two known average colors exactly when
\* some channel differs by more than 10 or the three differences add up to
\* more than 15.
C23_ColorTestThresholds ==
    (fn = "similarEnoughRGBColors" /\ args[1] # NoColor /\ args[2] # NoColor) =>
        (result = FALSE <=> colorsTooFar(args[1], args[2]))

\* C24: the colors of i and of j are known before the cheap color test is
\* applied, so the iteration that computes the average color of j, and then
\* compares the two images pixel by pixel (lines 1455-1456), is never one on
\* two images whose average colors fail the cheap color test.
C24_NoFullComparisonOfDistantColors ==
    [][ (/\ vpc = "inner" /\ vj <= Len(imageFiles)
         /\ imageFiles[vj][4] # NonePath
         /\ imageFiles[vj][3] = NoColor
         /\ imageFiles'[vj][3] # NoColor) =>
          ~ colorsTooFar(averageRGB(imageFiles[vi][4]), averageRGB(imageFiles[vj][4]))
      ]_vars

\* the pixel counts and the width + height of the two arguments of a call
pixelsOf(A) == A[1] * A[2]

sumOf(A) == A[1] + A[2]

\* C25: the tolerance is 5 for two images of the same pixel count, 10 when
\* the pixel count of the larger is 10 times that of the smaller or more,
\* never above 10, and never lower for a pair of a larger pixel-count ratio
\* than for one of a smaller.
C25_ToleranceByPixelRatio ==
    fn = "sameImages" =>
        LET big == max2(pixelsOf(args[1]), pixelsOf(args[2]))
            small == min2(pixelsOf(args[1]), pixelsOf(args[2]))
        IN  /\ big = small => result.tolerance = 5
            /\ big >= 10 * small => result.tolerance = 10
            /\ result.tolerance <= 10
            /\ \A S, T \in Sizes :
                  LET big2 == max2(pixelsOf(S), pixelsOf(T))
                      small2 == min2(pixelsOf(S), pixelsOf(T))
                  IN  big * small2 <= big2 * small =>
                          result.tolerance <= tolerance(S, T)

\* C25 as amended: with r the ratio of the width + height of the two images
\* (larger over smaller), the tolerance is 5 for r < 2, 6 for r < 4, 7 for
\* r < 6, 8 for r < 8, 9 for r < 10 and 10 for r >= 10: it is 5 for equal
\* width + height, never decreases as r grows, and is never above 10.
C25_ToleranceByWidthPlusHeightRatio ==
    fn = "sameImages" =>
        LET big == max2(sumOf(args[1]), sumOf(args[2]))
            small == min2(sumOf(args[1]), sumOf(args[2]))
        IN  result.tolerance =
              CASE big < 2 * small -> 5
                [] big >= 2 * small /\ big < 4 * small -> 6
                [] big >= 4 * small /\ big < 6 * small -> 7
                [] big >= 6 * small /\ big < 8 * small -> 8
                [] big >= 8 * small /\ big < 10 * small -> 9
                [] OTHER -> 10

C25_Witness ==
    /\ fn = "sameImages"
    /\ pixelsOf(args[2]) >= 10 * pixelsOf(args[1])
    /\ result.tolerance = 7


\* one size is the larger of two when it is no smaller in either dimension
largerInBoth(A, B) == A # B /\ A[1] >= B[1] /\ A[2] >= B[2]

\* C27: when one image is larger than the other, the smaller one is resized
\* and the two are compared at the dimensions of the larger.
C27_SmallerResizedToLarger ==
    fn = "sameImages" =>
        /\ largerInBoth(args[1], args[2]) =>
              result.resized = "B" /\ result.comparedAt = args[1]
        /\ largerInBoth(args[2], args[1]) =>
              result.resized = "A" /\ result.comparedAt = args[2]

\* C27 as amended: when the dimensions differ, the image of the greater
\* width (of the greater height, at equal widths) is the one resized, and the
\* two are compared at the dimensions of the other; an image larger in both
\* dimensions is scaled down to the smaller one.
C27_GreaterResizedToOther ==
    (fn = "sameImages" /\ args[1] # args[2]) =>
        LET firstIsGreater ==
                IF args[1][1] # args[2][1] THEN args[1][1] > args[2][1]
                ELSE args[1][2] > args[2][2]
        IN  IF firstIsGreater
            THEN result.resized = "A" /\ result.comparedAt = args[2]
            ELSE result.resized = "B" /\ result.comparedAt = args[1]

C27_Witness ==
    /\ fn = "sameImages"
    /\ largerInBoth(args[1], args[2])
    /\ result.resized = "A"
    /\ result.comparedAt = args[2]


\* C26: the images are scanned by orientation key descending and, at equal
\* orientation keys, by width + height descending.
C26_ScanOrderKeyThenSizeDescending ==
    (vpc \in { "outer", "inner", "done" }) =>
        \A k \in 1..(Len(imageFiles) - 1) :
            \/ imageFiles[k][1] > imageFiles[k + 1][1]
            \/ /\ imageFiles[k][1] = imageFiles[k + 1][1]
               /\ imageFiles[k][2][1] + imageFiles[k][2][2]
                    >= imageFiles[k + 1][2][1] + imageFiles[k + 1][2][2]

====
